---- MODULE Spec2Model ----
(***************************************************************************)
(* scripts/setup-test-users.cjs: the test-user seeder.                     *)
(*                                                                         *)
(* One run of the script is a process: the top-level code loads the        *)
(* environment and initialises Firebase Admin (Launch), then main() walks  *)
(* testUsers; every `await` of createTestUsers is one step (Query, Hash,   *)
(* SetUsers, SetMerchants), and displayCredentials plus the closing lines  *)
(* of main are the last step (Report).  The Firestore collections `users`  *)
(* and `merchants` are shared by all runs.                                 *)
(***************************************************************************)
EXTENDS Integers, Sequences, FiniteSets, TLC

\* Number of times the script is run in one behaviour.
MaxRuns == 2
\* Number of transient failures (a rejected await) the environment injects.
MaxFaults == 2
\* Number of documents each collection holds before the first run (InitAny).
MaxForeign == 1

VARIABLES
  users,        \* collection 'users': document key -> document
  merchants,    \* collection 'merchants': document key -> document
  pc,           \* per run: the await the run is suspended at
  idx,          \* per run: position of `user` in testUsers (the for-of loop)
  userData,     \* per run: the local `userData` of the current iteration
  exitCode,     \* per run: the process exit status
  log,          \* per run: the operations issued and console lines, in order
  credentials,  \* per run: state of the FIREBASE_* variables at launch
  connectable,  \* per run: whether Firestore can be reached at all
  faults,       \* transient failures injected so far
  width         \* how many runs the operator lets be in progress at a time

vars == <<users, merchants, pc, idx, userData, exitCode, log,
          credentials, connectable, faults, width>>

Procs == 1..MaxRuns

(***************************************************************************)
(* The fixture list.  `createdAt: new Date()` is evaluated when the module *)
(* loads, so it is the launch time of the run; runs are numbered in launch *)
(* order and the launch time of run t is t.                                *)
(***************************************************************************)
testUsers(t) ==
  << [ email |-> "admin@eventnft.app", password |-> "Admin123!",
       displayName |-> "Admin User", role |-> "admin", uid |-> "admin-user-001",
       data |-> [ id |-> "admin-user-001", email |-> "admin@eventnft.app",
                  displayName |-> "Admin User", role |-> "admin",
                  walletAddress |-> "ADMIN_WALLET_ADDRESS",
                  isVerified |-> TRUE, createdAt |-> t ] ],
     [ email |-> "merchant@eventnft.app", password |-> "Merchant123!",
       displayName |-> "Event Organizer", role |-> "merchant",
       uid |-> "merchant-user-001",
       data |-> [ id |-> "merchant-user-001",
                  businessName |-> "Music Festival Co.",
                  email |-> "merchant@eventnft.app",
                  category |-> "Entertainment",
                  description |-> "Leading music festival organizer",
                  walletAddress |-> "MERCHANT_WALLET_ADDRESS",
                  isApproved |-> TRUE, uid |-> "merchant-user-001",
                  role |-> "merchant", createdAt |-> t ] ],
     [ email |-> "user@eventnft.app", password |-> "User123!",
       displayName |-> "Regular User", role |-> "user", uid |-> "regular-user-001",
       data |-> [ id |-> "regular-user-001", email |-> "user@eventnft.app",
                  displayName |-> "Regular User", role |-> "user",
                  walletAddress |-> "USER_WALLET_ADDRESS",
                  isVerified |-> TRUE, createdAt |-> t ] ] >>

NumUsers == Len(testUsers(0))
Recs == 1..NumUsers
User(p, i) == testUsers(p)[i]

\* The record of the list whose role is merchant.
MerchantRec == CHOOSE i \in Recs : User(0, i).role = "merchant"

SeedEmails == { User(0, i).email : i \in Recs }
SeedUids == { User(0, i).uid : i \in Recs }
Plaintexts == { User(0, i).password : i \in Recs }

(***************************************************************************)
(* bcrypt.hash(password, 12): the library draws a fresh random salt for    *)
(* every call and returns a string "$2a$12$<salt><digest>".  The digest of *)
(* a plaintext is an opaque string that is not the plaintext.              *)
(***************************************************************************)
BcryptRounds == 12

BcryptDigest(password) ==
  CASE password = "Admin123!" -> "digest-of-admin-password"
    [] password = "Merchant123!" -> "digest-of-merchant-password"
    [] password = "User123!" -> "digest-of-user-password"
    [] OTHER -> "digest-of-other"

\* bcrypt.hash(password, rounds) with the salt the library drew.
BcryptHash(password, rounds, salt) ==
  "$2a$" \o ToString(rounds) \o "$" \o salt \o "." \o BcryptDigest(password)

hashPasswordPlain(password, salt) == password

hashPassword(password, salt) == BcryptHash(password, BcryptRounds, salt)

\* The salt of the call made by run p for record i: fresh for every call.
Salt(p, i) == "salt" \o ToString(p) \o ToString(i)

\* { ...user.data, password: hashedPassword }
WithPassword(data, hashed) ==
  [ f \in DOMAIN data \cup {"password"} |->
      IF f = "password" THEN hashed ELSE data[f] ]

(***************************************************************************)
(* Firestore.                                                              *)
(***************************************************************************)
EmptyCollection == [ k \in {} |-> [ email |-> "" ] ]

\* collection.where('email', '==', email).get(): the matching documents.
WhereEmailNone(coll, email) == {}

WhereEmailInMerchants(coll, email) ==
  { k \in DOMAIN merchants : merchants[k].email = email }

WhereEmail(coll, email) == { k \in DOMAIN coll : coll[k].email = email }

\* collection.doc(key).set(doc): create or replace.
SetDoc(coll, key, doc) ==
  [ k \in DOMAIN coll \cup {key} |-> IF k = key THEN doc ELSE coll[k] ]

\* The key a record is written at: user.uid.
DocKeyPerRun(p, i) == User(p, i).uid \o "-" \o ToString(p)

DocKey(p, i) == User(p, i).uid

\* user.role === 'merchant'
IsMerchantNotUser(user) == user.role # "user"

IsMerchant(user) == user.role = "merchant"

(***************************************************************************)
(* Control flow of createTestUsers and main.                               *)
(***************************************************************************)
\* The for-of loop: the iteration after record i, or the end of the loop.
ContinueSkip(i) ==
  IF i + 1 < NumUsers THEN [ pc |-> "query", idx |-> i + 2 ]
                      ELSE [ pc |-> "report", idx |-> NumUsers + 1 ]

Continue(i) ==
  IF i < NumUsers THEN [ pc |-> "query", idx |-> i + 1 ]
                  ELSE [ pc |-> "report", idx |-> NumUsers + 1 ]

\* The catch block of the loop body: log, then the loop goes on.
CatchBreak(i) == [ pc |-> "report", idx |-> NumUsers + 1 ]

Catch(i) == Continue(i)

\* Exit status when main() returns normally and the event loop drains.
ExitStatusFailOnError(l) ==
  IF \E n \in 1..Len(l) : l[n].ev = "failed" THEN 1 ELSE 0

ExitStatus(l) == 0

Ev(e, i, ok) == [ ev |-> e, rec |-> i, ok |-> ok ]

\* Whether the awaited operation may resolve / reject.
\* A Firestore call of a run that cannot reach the database always rejects;
\* otherwise the environment may inject a transient failure.
DbOutcomes(p) ==
  IF ~connectable[p] THEN {FALSE}
  ELSE IF faults < MaxFaults THEN {TRUE, FALSE} ELSE {TRUE}

HashOutcomes == IF faults < MaxFaults THEN {TRUE, FALSE} ELSE {TRUE}

Faults(p, ok) == IF ~ok /\ connectable[p] THEN faults + 1 ELSE faults

\* The step taken when the awaited operation of record i rejects.
Thrown(p, i, op) ==
  /\ log' = [log EXCEPT ![p] = @ \o << Ev(op, i, FALSE), Ev("failed", i, TRUE) >>]
  /\ pc' = [pc EXCEPT ![p] = Catch(i).pc]
  /\ idx' = [idx EXCEPT ![p] = Catch(i).idx]

\* The step taken when record i is done without an exception.
Finished(p, i, op, line) ==
  /\ log' = [log EXCEPT ![p] = @ \o << Ev(op, i, TRUE), Ev(line, i, TRUE) >>]
  /\ pc' = [pc EXCEPT ![p] = Continue(i).pc]
  /\ idx' = [idx EXCEPT ![p] = Continue(i).idx]

(***************************************************************************)
(* Actions.                                                                *)
(***************************************************************************)
\* The runs that are launched and have not ended.
Running == { q \in Procs : pc[q] \notin {"init", "exited"} }

\* Top level: loadEnvFile, the Firebase Admin try block, main() up to the
\* first await of createTestUsers.  A fresh process has no app yet, so the
\* try block takes the getApps().length === 0 branch: cert() throws on
\* malformed credentials and `.replace` throws on a missing private key
\* (no .env file and nothing in the ambient environment).  The block is
\* synchronous: it builds the Firestore handle and opens no connection, so
\* an unreachable database is first noticed by the awaited query.
Launch(p) ==
  /\ pc[p] = "init"
  /\ \A q \in Procs : q < p => pc[q] # "init"
  /\ Cardinality(Running) < width
  /\ \E cred \in {"valid", "malformed", "missing"}, conn \in BOOLEAN :
       /\ credentials' = [credentials EXCEPT ![p] = cred]
       /\ connectable' = [connectable EXCEPT ![p] = conn]
       /\ IF cred = "valid"
          THEN /\ pc' = [pc EXCEPT ![p] = "query"]
               /\ idx' = [idx EXCEPT ![p] = 1]
               /\ log' = [log EXCEPT ![p] = << Ev("initialized", 0, TRUE) >>]
               /\ UNCHANGED exitCode
          ELSE /\ pc' = [pc EXCEPT ![p] = "exited"]
               /\ exitCode' = [exitCode EXCEPT ![p] = 1]
               /\ log' = [log EXCEPT ![p] = << Ev("initFailed", 0, TRUE) >>]
               /\ UNCHANGED idx
  /\ UNCHANGED <<users, merchants, userData, faults, width>>

\* await db.collection('users').where('email', '==', user.email).get()
Query(p) ==
  /\ pc[p] = "query"
  /\ \E ok \in DbOutcomes(p) :
       /\ faults' = Faults(p, ok)
       /\ IF ~ok THEN Thrown(p, idx[p], "query")
          ELSE IF WhereEmail(users, User(p, idx[p]).email) = {}
          THEN /\ pc' = [pc EXCEPT ![p] = "hash"]
               /\ log' = [log EXCEPT ![p] = Append(@, Ev("query", idx[p], TRUE))]
               /\ UNCHANGED idx
          ELSE Finished(p, idx[p], "query", "exists")
  /\ UNCHANGED <<users, merchants, userData, exitCode, credentials,
                 connectable, width>>

\* await hashPassword(user.password); userData = {...user.data, password}
Hash(p) ==
  /\ pc[p] = "hash"
  /\ \E ok \in HashOutcomes :
       /\ faults' = Faults(p, ok)
       /\ IF ~ok THEN Thrown(p, idx[p], "hash") /\ UNCHANGED userData
          ELSE /\ userData' = [userData EXCEPT ![p] =
                    WithPassword(User(p, idx[p]).data,
                                 hashPassword(User(p, idx[p]).password,
                                              Salt(p, idx[p])))]
               /\ pc' = [pc EXCEPT ![p] = "setUsers"]
               /\ log' = [log EXCEPT ![p] = Append(@, Ev("hash", idx[p], TRUE))]
               /\ UNCHANGED idx
  /\ UNCHANGED <<users, merchants, exitCode, credentials, connectable, width>>

\* await db.collection('users').doc(user.uid).set(userData)
SetUsers(p) ==
  /\ pc[p] = "setUsers"
  /\ \E ok \in DbOutcomes(p) :
       /\ faults' = Faults(p, ok)
       /\ IF ~ok THEN Thrown(p, idx[p], "setUsers") /\ UNCHANGED users
          ELSE /\ users' = SetDoc(users, DocKey(p, idx[p]), userData[p])
               /\ IF IsMerchant(User(p, idx[p]))
                  THEN /\ pc' = [pc EXCEPT ![p] = "setMerchants"]
                       /\ log' = [log EXCEPT ![p] =
                                    Append(@, Ev("setUsers", idx[p], TRUE))]
                       /\ UNCHANGED idx
                  ELSE Finished(p, idx[p], "setUsers", "created")
  /\ UNCHANGED <<merchants, userData, exitCode, credentials, connectable, width>>

\* await db.collection('merchants').doc(user.uid).set(userData)
SetMerchants(p) ==
  /\ pc[p] = "setMerchants"
  /\ \E ok \in DbOutcomes(p) :
       /\ faults' = Faults(p, ok)
       /\ IF ~ok THEN Thrown(p, idx[p], "setMerchants") /\ UNCHANGED merchants
          ELSE /\ merchants' = SetDoc(merchants, DocKey(p, idx[p]), userData[p])
               /\ Finished(p, idx[p], "setMerchants", "created")
  /\ UNCHANGED <<users, userData, exitCode, credentials, connectable, width>>

\* await displayCredentials(); the closing lines of main; the process ends.
Report(p) ==
  /\ pc[p] = "report"
  /\ log' = [log EXCEPT ![p] = Append(@, Ev("report", 0, TRUE))]
  /\ pc' = [pc EXCEPT ![p] = "exited"]
  /\ exitCode' = [exitCode EXCEPT ![p] = ExitStatus(log[p])]
  /\ UNCHANGED <<users, merchants, idx, userData, credentials, connectable,
                 faults, width>>

Next ==
  \E p \in Procs :
    \/ Launch(p)
    \/ Query(p)
    \/ Hash(p)
    \/ SetUsers(p)
    \/ SetMerchants(p)
    \/ Report(p)

(***************************************************************************)
(* Initial states.                                                         *)
(***************************************************************************)
NoData == [ email |-> "" ]

InitRuns ==
  /\ pc = [p \in Procs |-> "init"]
  /\ idx = [p \in Procs |-> 1]
  /\ userData = [p \in Procs |-> NoData]
  /\ exitCode = [p \in Procs |-> 0]
  /\ log = [p \in Procs |-> << >>]
  /\ credentials = [p \in Procs |-> "valid"]
  /\ connectable = [p \in Procs |-> TRUE]
  /\ faults = 0

\* Runs one after another on an empty database.
Init ==
  /\ InitRuns
  /\ users = EmptyCollection
  /\ merchants = EmptyCollection
  /\ width = 1

\* Two runs at a time, interleaved at every await, on an empty database.
InitConc ==
  /\ InitRuns
  /\ users = EmptyCollection
  /\ merchants = EmptyCollection
  /\ width = 2

\* Documents written by something else than the seeder.
ForeignKeys == SeedUids \cup {"legacy-001"}
ForeignEmails == SeedEmails \cup {"someone@eventnft.app"}
ForeignDoc(k, e) == [ id |-> k, email |-> e, password |-> "$2a$10$legacy" ]

ForeignCollections ==
  { [ k \in K |-> ForeignDoc(k, e) ] :
      K \in { S \in SUBSET ForeignKeys : Cardinality(S) <= MaxForeign },
      e \in ForeignEmails }

\* Runs one after another on a database that already holds documents.
InitAny ==
  /\ InitRuns
  /\ users \in ForeignCollections
  /\ merchants \in ForeignCollections
  /\ width = 1

Spec == Init /\ [][Next]_vars
SpecConc == InitConc /\ [][Next]_vars
SpecAny == InitAny /\ [][Next]_vars

(***************************************************************************)
(* Vocabulary of the properties.                                           *)
(***************************************************************************)
Launched(p) == pc[p] # "init"
\* Run p went through main() to its end.
Completed(p) == pc[p] = "exited" /\ credentials[p] = "valid"
Positions(p) == 1..Len(log[p])
\* Run p logged event e for record i.
Logged(p, e, i) == \E n \in Positions(p) : log[p][n].ev = e /\ log[p][n].rec = i
\* Run p issued operation e for record i and it resolved / rejected.
Resolved(p, e, i) == \E n \in Positions(p) : log[p][n] = Ev(e, i, TRUE)
Rejected(p, e, i) == \E n \in Positions(p) : log[p][n] = Ev(e, i, FALSE)
\* No awaited operation of run p rejected.
NoThrow(p) == \A n \in Positions(p) : log[p][n].ok
WriteOps == {"setUsers", "setMerchants"}
OutcomeLines == {"created", "exists", "failed"}
\* The documents of a collection whose email field is e.
Matching(coll, e) == { k \in DOMAIN coll : coll[k].email = e }
SeedEmail(i) == testUsers(0)[i].email
SeedUid(i) == testUsers(0)[i].uid
SeedPassword(i) == testUsers(0)[i].password
\* The document run p builds for record i.
SeedDoc(p, i) ==
  [ f \in DOMAIN testUsers(p)[i].data \cup {"password"} |->
      IF f = "password"
      THEN BcryptHash(SeedPassword(i), 12, Salt(p, i))
      ELSE testUsers(p)[i].data[f] ]

\* C1: two runs in succession on an empty database, no step of which fails,
\* leave exactly one users document per seed user, all of them written by the
\* first run; the second run issues no write to users or merchants and
\* prints "already exists" for all three records.
C1_Idempotence ==
  (Completed(1) /\ Completed(2) /\ NoThrow(1) /\ NoThrow(2)) =>
     /\ \A i \in Recs : Cardinality(Matching(users, SeedEmail(i))) = 1
     /\ DOMAIN users = SeedUids
     /\ \A i \in Recs : users[SeedUid(i)] = SeedDoc(1, i)
     /\ DOMAIN merchants = {SeedUid(MerchantRec)}
     /\ merchants[SeedUid(MerchantRec)] = SeedDoc(1, MerchantRec)
     /\ \A n \in Positions(2) : log[2][n].ev \notin WriteOps
     /\ \A i \in Recs : Resolved(2, "exists", i)

C1_Witness ==
  /\ Completed(1) /\ Completed(2) /\ NoThrow(1) /\ NoThrow(2)
  /\ \A i \in Recs : Resolved(1, "created", i) /\ Resolved(2, "exists", i)

\* C2: no step of the seeder changes or removes a document that is already in
\* users or merchants, whatever the collections held before the first run.
C2_NeverOverwrites ==
  [][ /\ \A k \in DOMAIN users : k \in DOMAIN users' /\ users'[k] = users[k]
      /\ \A k \in DOMAIN merchants :
           k \in DOMAIN merchants' /\ merchants'[k] = merchants[k] ]_vars

\* C3: a rejected step of one record is caught for that record alone: the run
\* goes on to query every later record, prints one failure line for the record
\* whose step was rejected and none for any other, and every record none of
\* whose steps was rejected is in users when the run ends; a record the run
\* reports as created holds the document the run built.
C3_Isolation ==
  \A p \in Procs :
    /\ \A n \in Positions(p) :
         log[p][n].ev = "failed" =>
           /\ n > 1
           /\ ~log[p][n - 1].ok
           /\ log[p][n - 1].rec = log[p][n].rec
    /\ \A n \in Positions(p) :
         ~log[p][n].ok =>
           /\ n < Len(log[p])
           /\ log[p][n + 1] = Ev("failed", log[p][n].rec, TRUE)
    /\ (Launched(p) /\ credentials[p] = "valid" /\ pc[p] \in {"report", "exited"}) =>
         \A i \in Recs :
           /\ Logged(p, "query", i)
           /\ ~Logged(p, "failed", i) => Matching(users, SeedEmail(i)) # {}
           /\ Resolved(p, "created", i) =>
                /\ SeedUid(i) \in DOMAIN users
                /\ users[SeedUid(i)] = SeedDoc(p, i)

C3_Witness ==
  /\ Completed(1)
  /\ Logged(1, "failed", 1)
  /\ \A i \in Recs \ {1} :
       /\ Resolved(1, "created", i)
       /\ SeedUid(i) \in DOMAIN users
  /\ SeedUid(1) \notin DOMAIN users

\* C4: only the record whose role is merchant is ever written to merchants,
\* failures or not; and once a run on the empty database has ended without a
\* rejected step, merchants holds exactly one document, at merchant-user-001,
\* equal to the users document at that key, and users holds three documents.
C4_MerchantOnly ==
  /\ \A p \in Procs : \A n \in Positions(p) :
       log[p][n].ev = "setMerchants" => testUsers(p)[log[p][n].rec].role = "merchant"
  /\ DOMAIN merchants \subseteq {"merchant-user-001"}
  /\ \A k \in DOMAIN merchants : merchants[k].role = "merchant"
  /\ (Completed(1) /\ NoThrow(1)) =>
       /\ DOMAIN merchants = {"merchant-user-001"}
       /\ "merchant-user-001" \in DOMAIN users
       /\ merchants["merchant-user-001"] = users["merchant-user-001"]
       /\ Cardinality(DOMAIN users) = 3

C4_Witness ==
  /\ Completed(1) /\ NoThrow(1)
  /\ \A i \in Recs : Resolved(1, "created", i)
  /\ Cardinality(DOMAIN merchants) = 1

\* The fields of a document that hold something else than a string.
NonStringFields == {"isVerified", "isApproved", "createdAt"}

\* C5: every document in users and merchants (all of them written by the
\* seeder) has a password field that is the bcrypt hash of its record's
\* plaintext password and is not the plaintext, and no field of it is the
\* plaintext password of any record.
C5_PasswordConfidential ==
  \A coll \in {users, merchants} : \A k \in DOMAIN coll :
    /\ "password" \in DOMAIN coll[k]
    /\ \E i \in Recs :
         /\ coll[k].email = SeedEmail(i)
         /\ \E p \in Procs : coll[k].password = BcryptHash(SeedPassword(i), 12, Salt(p, i))
         /\ coll[k].password # SeedPassword(i)
    /\ \A f \in DOMAIN coll[k] \ NonStringFields : coll[k][f] \notin Plaintexts

C5_Witness ==
  /\ DOMAIN users = SeedUids
  /\ DOMAIN merchants = {SeedUid(MerchantRec)}

\* C6: a run whose bootstrap failed, the credentials being malformed or
\* missing or the database being unreachable, ends with exit status 1 and
\* without having queried, hashed or written any record or printed the
\* credential report.
C6_FatalBootstrap ==
  \A p \in Procs :
    (pc[p] = "exited" /\ (credentials[p] # "valid" \/ ~connectable[p])) =>
       /\ exitCode[p] = 1
       /\ \A n \in Positions(p) : log[p][n].rec = 0 /\ log[p][n].ev # "report"

\* C7: in a run whose bootstrap succeeded the credential report is printed at
\* most once, only after each of the three records has its outcome line, and
\* it is the last thing the run does; a run that has ended printed it exactly
\* once and has exit status 0, whatever the outcomes of the records were, and
\* the exit status is never non-zero before that.
C7_ReportOnce ==
  \A p \in Procs : (Launched(p) /\ credentials[p] = "valid") =>
    /\ Cardinality({ n \in Positions(p) : log[p][n].ev = "report" }) <= 1
    /\ \A n \in Positions(p) :
         log[p][n].ev = "report" =>
           /\ n = Len(log[p])
           /\ pc[p] = "exited"
           /\ \A i \in Recs :
                \E m \in 1..(n - 1) :
                  log[p][m].rec = i /\ log[p][m].ev \in OutcomeLines
    /\ pc[p] = "exited" => Logged(p, "report", 0)
    /\ exitCode[p] = 0

C7_Witness ==
  /\ Completed(2)
  /\ exitCode[2] = 0
  /\ \E i, j, k \in Recs :
       /\ Logged(2, "created", i)
       /\ Logged(2, "exists", j)
       /\ Logged(2, "failed", k)

\* Position of a step inside the processing of one record.
Rank(e) ==
  CASE e = "query" -> 1
    [] e = "hash" -> 2
    [] e = "setUsers" -> 3
    [] e = "setMerchants" -> 4
    [] e \in OutcomeLines -> 5
    [] OTHER -> 0

\* C8: within one run the steps follow the list: the steps of a record come
\* in the order query, hash, users write, merchants write, outcome line, each
\* at most once; a step of a later record comes only after the outcome line of
\* every earlier record; the merchants write comes after the resolved users
\* write of the same record; and a run that has ended has queried each of the
\* three records exactly once and printed exactly one outcome line for each.
C8_Sequential ==
  \A p \in Procs :
    /\ \A m, n \in Positions(p) :
         (m < n /\ log[p][m].rec > 0 /\ log[p][n].rec > 0) =>
           /\ log[p][m].rec <= log[p][n].rec
           /\ log[p][m].rec = log[p][n].rec =>
                Rank(log[p][m].ev) < Rank(log[p][n].ev)
           /\ log[p][m].rec < log[p][n].rec =>
                \E o \in m..(n - 1) :
                  /\ log[p][o].rec = log[p][m].rec
                  /\ log[p][o].ev \in OutcomeLines
    /\ \A n \in Positions(p) :
         log[p][n].ev = "setMerchants" =>
           \E m \in 1..(n - 1) : log[p][m] = Ev("setUsers", log[p][n].rec, TRUE)
    /\ Completed(p) =>
         \A i \in Recs :
           /\ Cardinality({ n \in Positions(p) :
                log[p][n].rec = i /\ log[p][n].ev = "query" }) = 1
           /\ Cardinality({ n \in Positions(p) :
                log[p][n].rec = i /\ log[p][n].ev \in OutcomeLines }) = 1

C8_Witness ==
  /\ Completed(1)
  /\ \A i \in Recs : Resolved(1, "created", i)
  /\ Resolved(1, "setMerchants", MerchantRec)

\* Run q wrote the merchant to users and its write to merchants was rejected.
Orphaned(q) ==
  /\ Resolved(q, "setUsers", MerchantRec)
  /\ Rejected(q, "setMerchants", MerchantRec)

\* C9: a run launched after a run has written the merchant to users issues no
\* write for the merchant, to users or to merchants; so after a run whose users
\* write of the merchant resolved and whose merchants write was rejected, the
\* users document stays as that run wrote it, merchants stays without the
\* merchant, and every later run whose existence query for the merchant is
\* answered prints "already exists" for it.
C9_NoRepair ==
  \A q \in Procs :
    /\ Resolved(q, "setUsers", MerchantRec) =>
         \A p \in Procs : p > q =>
           /\ ~Logged(p, "setUsers", MerchantRec)
           /\ ~Logged(p, "setMerchants", MerchantRec)
           /\ ~Logged(p, "created", MerchantRec)
    /\ Orphaned(q) =>
         /\ SeedUid(MerchantRec) \in DOMAIN users
         /\ users[SeedUid(MerchantRec)] = SeedDoc(q, MerchantRec)
         /\ merchants = EmptyCollection
         /\ \A p \in Procs : (p > q /\ Resolved(p, "query", MerchantRec)) =>
              Resolved(p, "exists", MerchantRec)

C9_Witness ==
  /\ Orphaned(1)
  /\ Completed(2)
  /\ Resolved(2, "exists", MerchantRec)
  /\ SeedUid(MerchantRec) \in DOMAIN users
  /\ merchants = EmptyCollection

\* C10: with two runs interleaved on an empty database, users never holds
\* two documents with the same seed email nor more than three documents,
\* merchants never holds more than one, and every document sits at the fixed
\* uid of its record.
C10_ConcurrentKeys ==
  /\ \A i \in Recs : Cardinality(Matching(users, SeedEmail(i))) <= 1
  /\ Cardinality(DOMAIN users) <= 3
  /\ Cardinality(DOMAIN merchants) <= 1
  /\ \A k \in DOMAIN users : users[k].id = k /\ k \in SeedUids
  /\ \A k \in DOMAIN merchants : merchants[k].id = k /\ k = SeedUid(MerchantRec)

\* Both runs found the record missing and both wrote it.
C10_Witness ==
  /\ \A i \in Recs : Resolved(1, "setUsers", i) /\ Resolved(2, "setUsers", i)
  /\ Resolved(1, "setMerchants", MerchantRec)
  /\ Resolved(2, "setMerchants", MerchantRec)
  /\ Completed(1) /\ Completed(2)

====
